---- MODULE Spec2Model ----
(***************************************************************************)
(* Vendor-onboarding risk pipeline: the advanced risk orchestrator         *)
(* (src/lambda/advanced-risk-orchestrator/lambda_function.py).             *)
(*                                                                         *)
(* Arithmetic is exact.  A signal score s is held as the integer 100*s     *)
(* (0.3 is 30), a weight w as 100*w (0.15 is 15), and every composite      *)
(* value, being a sum of score*weight products, as 10000*c (0.95 is 9500). *)
(***************************************************************************)
EXTENDS Integers, Sequences, FiniteSets, TLC

VARIABLES
    pc,         \* position of lambda_handler: the signal to invoke next, "assess",
                \* "done" ("idle" where the handler is not running)
    event,      \* the handler's input event
    responses,  \* what each producer invocation produced (history)
    results,    \* invoke_parallel_analyses' results dict, as built so far
    out,        \* the record lambda_handler returns
    phase,      \* pure-function specifications: "input" or "applied"
    inp,        \* pure-function specifications: the arguments
    ret,        \* pure-function specifications: the value returned
    save_pc,    \* save_with_retry: "put", "exhausted", "done" ("idle" when not running)
    attempt,    \* save_with_retry: the loop variable
    backoff,    \* save_with_retry: seconds to sleep before the next attempt
    last_error, \* save_with_retry: the last retryable error caught
    calls,      \* save_with_retry: the put_item and sleep calls made so far (history)
    save_result,\* save_with_retry: "returned" or the error raised
    user,       \* auth-handler: the user's item in the users table
    login,      \* auth-handler: each running handle_login call
    trail       \* auth-handler: what happened to the account so far (history)

vars ==
    <<pc, event, responses, results, out, phase, inp, ret,
      save_pc, attempt, backoff, last_error, calls, save_result, user, login, trail>>
orchVars == <<pc, event, responses, results, out>>
fnVars == <<phase, inp, ret>>
saveVars == <<save_pc, attempt, backoff, last_error, calls, save_result>>
authVars == <<user, login, trail>>
otherVars == <<saveVars, authVars>>

\* the values of the variables of a program that is not part of a specification
SaveIdle ==
    /\ save_pc = "idle"
    /\ attempt = 0
    /\ backoff = 0
    /\ last_error = "none"
    /\ calls = <<>>
    /\ save_result = "none"

AuthIdle ==
    /\ user = <<>>
    /\ login = <<>>
    /\ trail = <<>>

OtherIdle == SaveIdle /\ AuthIdle

(***************************** bounds **************************************)
\* how many of the seven aggregated scores may lie outside [0,1] at once
MaxOutOfRange == 2
\* how many producers of one request may answer with a malformed payload
MaxMalformed == 1
\* the longest matchedEntities list a payload carries
MaxMatches == 2
\* how far around each band threshold the decision is probed (1/10000 steps)
BandMargin == 1

(**************************** constants ************************************)
Signals == <<"network", "entity", "behavioral", "payment", "legal">>
SignalSet == {Signals[i] : i \in 1..Len(Signals)}
ScoreNames == SignalSet \cup {"fraud", "content"}

\* mutant: a weight table that does not sum to 1.0 (entity 0.35)
WEIGHTS_unnormalized == [network |-> 15, entity |-> 35, behavioral |-> 15, payment |-> 15, legal |-> 15, fraud |-> 5, content |-> 5]

WEIGHTS == [network |-> 15, entity |-> 30, behavioral |-> 15, payment |-> 15, legal |-> 15, fraud |-> 5, content |-> 5]

\* 1.0 as a weight, and as a score
WeightOne == 100
ScoreOne == 100
\* 1.0 as a composite value (score unit times weight unit)
One == ScoreOne * WeightOne
\* a decimal literal of the source, given in hundredths, as a composite value
Lit(h) == h * WeightOne

DEFAULT_SCORE == 30

Max(a, b) == IF a >= b THEN a ELSE b
Min(a, b) == IF a <= b THEN a ELSE b

(********************** calculate_comprehensive_risk ***********************)
WeightedSum(network, entity, behavioral, payment, legal, fraud, content) ==
    network * WEIGHTS.network + entity * WEIGHTS.entity
    + behavioral * WEIGHTS.behavioral + payment * WEIGHTS.payment
    + legal * WEIGHTS.legal + fraud * WEIGHTS.fraud + content * WEIGHTS.content

\* mutant: the entity override assigns its floor instead of taking the max
calculate_comprehensive_risk_assign(network, entity, behavioral, payment, legal, fraud, content) ==
    LET comprehensive == WeightedSum(network, entity, behavioral, payment, legal, fraud, content)
        c1 == IF entity >= 95 THEN Lit(95) ELSE comprehensive
        c2 == IF legal >= 90 THEN Max(c1, Lit(90)) ELSE c1
    IN  Min(One, c2)

\* mutant: the legal override tests > 0.9 instead of >= 0.9
calculate_comprehensive_risk_strict(network, entity, behavioral, payment, legal, fraud, content) ==
    LET comprehensive == WeightedSum(network, entity, behavioral, payment, legal, fraud, content)
        c1 == IF entity >= 95 THEN Max(comprehensive, Lit(95)) ELSE comprehensive
        c2 == IF legal > 90 THEN Max(c1, Lit(90)) ELSE c1
    IN  Min(One, c2)

calculate_comprehensive_risk(network, entity, behavioral, payment, legal, fraud, content) ==
    LET comprehensive == WeightedSum(network, entity, behavioral, payment, legal, fraud, content)
        c1 == IF entity >= 95 THEN Max(comprehensive, Lit(95)) ELSE comprehensive
        c2 == IF legal >= 90 THEN Max(c1, Lit(90)) ELSE c1
    IN  Min(One, c2)

\* the function applied to a record of the seven scores
Composite(s) ==
    calculate_comprehensive_risk(s.network, s.entity, s.behavioral, s.payment, s.legal, s.fraud, s.content)

(******************* specification: the aggregation alone ******************)
InRangeScores == {0, DEFAULT_SCORE, 90, 95, ScoreOne}
OutOfRangeScores == {-50, 150}

AggInputs ==
    {s \in [ScoreNames -> InRangeScores \cup OutOfRangeScores] :
        Cardinality({n \in ScoreNames : s[n] \in OutOfRangeScores}) <= MaxOutOfRange}

OrchIdle ==
    /\ pc = "idle"
    /\ event = [requestId |-> "none"]
    /\ responses = <<>>
    /\ results = <<>>
    /\ out = [path |-> "none"]

AggInit ==
    /\ OrchIdle
    /\ OtherIdle
    /\ phase = "input"
    /\ inp \in AggInputs
    /\ ret = 0

Aggregate ==
    /\ phase = "input"
    /\ ret' = Composite(inp)
    /\ phase' = "applied"
    /\ UNCHANGED <<inp, orchVars, otherVars>>

AggNext == Aggregate

SpecAgg == AggInit /\ [][AggNext]_vars

(* C2: for every combination of the seven scores, in range or not, the     *)
(* composite calculate_comprehensive_risk returns lies in [0,1].           *)
C2_Clamped == phase = "applied" => (0 <= ret /\ ret <= One)

(* C7: override dominance: entity >= 0.95 forces composite >= 0.95 and     *)
(* legal >= 0.9 forces composite >= 0.9, whatever the other scores are.    *)
C7_OverrideDominance ==
    phase = "applied" =>
        /\ inp.entity >= 95 => ret >= Lit(95)
        /\ inp.legal >= 90 => ret >= Lit(90)

C7_Witness ==
    /\ phase = "applied"
    /\ inp.entity = 95
    /\ \A n \in ScoreNames \ {"entity"} : inp[n] = 0
    /\ ret = Lit(95)

\* the weighted sum with the final clamp of line 231 and no override rule
WithoutOverrides(s) ==
    Min(One, WeightedSum(s.network, s.entity, s.behavioral, s.payment, s.legal, s.fraud, s.content))

(* C9: override monotonicity: the composite with the entity and legal      *)
(* override rules applied is never below the clamped weighted sum without  *)
(* them.                                                                   *)
C9_OverrideMonotone == phase = "applied" => ret >= WithoutOverrides(inp)

C9_Witness ==
    /\ phase = "applied"
    /\ inp.legal >= 90
    /\ inp.entity < 95
    /\ ret > WithoutOverrides(inp)

SumWeights ==
    WEIGHTS.network + WEIGHTS.entity + WEIGHTS.behavioral + WEIGHTS.payment
    + WEIGHTS.legal + WEIGHTS.fraud + WEIGHTS.content

AllEqual(s, v) == \A n \in ScoreNames : s[n] = v

(* C10: weight normalization: WEIGHTS sum to exactly 1.0, and when all     *)
(* seven scores equal the same v in [0,1] the composite equals v, also for *)
(* v at or above the override thresholds.                                  *)
C10_WeightNormalization ==
    /\ SumWeights = WeightOne
    /\ (phase = "applied" /\ inp.network \in 0..ScoreOne /\ AllEqual(inp, inp.network))
          => ret = inp.network * WeightOne

C10_Witness ==
    /\ phase = "applied"
    /\ AllEqual(inp, 95)
    /\ ret = Lit(95)

(******************************* payloads **********************************)
(* A results entry is what json.loads made of a producer's response, or    *)
(* the default an except branch put in its place.  kind "notmap" is a JSON *)
(* value that is no object (a list, a string, null).  scoreKind tells what *)
(* the entry's <signal>RiskScore key holds: "absent" (no such key), "null",*)
(* "str" (a non-numeric value) or "num", and then score is the number.     *)
(* factors is the <signal>RiskFactors list; matchedEntities lists each     *)
(* element's severity ("none": a mapping without one; "notmap": an element *)
(* that is no mapping); anomalies is len(detectedAnomalies); error tells   *)
(* whether the entry has an 'error' key.                                   *)
Entry(k, sk, sc, fs, cs, ms, an, er) ==
    [kind |-> k, scoreKind |-> sk, score |-> sc, factors |-> fs,
     complianceStatus |-> cs, matchedEntities |-> ms, anomalies |-> an, error |-> er]

\* a well-formed payload with nothing but a score and factor tags
Plain(sc, fs) == Entry("map", "num", sc, fs, "absent", <<>>, 0, FALSE)

NotMap == Entry("notmap", "absent", 0, <<>>, "absent", <<>>, 0, FALSE)

\* results.get(name, {}): the entry, or an empty mapping when there is none
EmptyMap == Entry("map", "absent", 0, <<>>, "absent", <<>>, 0, FALSE)
Get(rs, n) == IF n \in DOMAIN rs THEN rs[n] ELSE EmptyMap

(************************ determine_recommendation *************************)
\* any(m.get('severity') == 'CRITICAL' for m in matched_entities): evaluated
\* left to right, stopping at the first CRITICAL; m.get raises on a non-mapping
RECURSIVE AnyCritical(_)
AnyCritical(ms) ==
    IF ms = <<>> THEN "false"
    ELSE IF Head(ms) = "notmap" THEN "raise"
    ELSE IF Head(ms) = "CRITICAL" THEN "true"
    ELSE AnyCritical(Tail(ms))

Bands(risk_score) ==
    IF risk_score >= Lit(70) THEN "MANUAL_REVIEW"
    ELSE IF risk_score >= Lit(50) THEN "ENHANCED_DUE_DILIGENCE"
    ELSE IF risk_score >= Lit(30) THEN "STANDARD_REVIEW"
    ELSE "AUTO_APPROVE"

\* mutant: the score bands are consulted before the block checks
determine_recommendation_bandsfirst(risk_score, rs) ==
    LET entity_data == Get(rs, "entity")
    IN  IF entity_data.kind = "notmap" THEN "RAISE"
        ELSE IF risk_score >= Lit(30) THEN Bands(risk_score)
        ELSE IF entity_data.complianceStatus = "BLOCKED" THEN "BLOCKED"
        ELSE IF AnyCritical(entity_data.matchedEntities) = "raise" THEN "RAISE"
        ELSE IF AnyCritical(entity_data.matchedEntities) = "true" THEN "BLOCKED"
        ELSE "AUTO_APPROVE"

\* mutant: the 0.5 boundary is exclusive (> instead of >=)
determine_recommendation_exclusive(risk_score, rs) ==
    LET entity_data == Get(rs, "entity")
    IN  IF entity_data.kind = "notmap" THEN "RAISE"
        ELSE IF entity_data.complianceStatus = "BLOCKED" THEN "BLOCKED"
        ELSE IF AnyCritical(entity_data.matchedEntities) = "raise" THEN "RAISE"
        ELSE IF AnyCritical(entity_data.matchedEntities) = "true" THEN "BLOCKED"
        ELSE IF risk_score >= Lit(70) THEN "MANUAL_REVIEW"
        ELSE IF risk_score > Lit(50) THEN "ENHANCED_DUE_DILIGENCE"
        ELSE IF risk_score >= Lit(30) THEN "STANDARD_REVIEW"
        ELSE "AUTO_APPROVE"

\* "RAISE": the call raised (AttributeError of .get on a value that is no dict)
determine_recommendation(risk_score, rs) ==
    LET entity_data == Get(rs, "entity")
    IN  IF entity_data.kind = "notmap" THEN "RAISE"
        ELSE IF entity_data.complianceStatus = "BLOCKED" THEN "BLOCKED"
        ELSE IF AnyCritical(entity_data.matchedEntities) = "raise" THEN "RAISE"
        ELSE IF AnyCritical(entity_data.matchedEntities) = "true" THEN "BLOCKED"
        ELSE Bands(risk_score)

(****************** specification: the decision alone **********************)
Severities == {"CRITICAL", "HIGH", "none", "notmap"}
MatchLists == UNION {[1..k -> Severities] : k \in 0..MaxMatches}

BandThresholds == {Lit(30), Lit(50), Lit(70)}
DecideScores ==
    {-1500, 0, One} \cup {t + d : t \in BandThresholds, d \in (0 - BandMargin)..BandMargin}

\* what the entity producer's payload may say about blocks
DecideEntityEntries ==
    {NotMap} \cup
    {Entry("map", "num", DEFAULT_SCORE, <<>>, cs, ms, 0, FALSE) :
        cs \in {"absent", "CLEAR", "BLOCKED"}, ms \in MatchLists}

\* another producer's payload: clean, or carrying the same block marks
DecideOtherEntries ==
    {Plain(DEFAULT_SCORE, <<>>),
     Entry("map", "num", DEFAULT_SCORE, <<>>, "BLOCKED", <<>>, 0, FALSE),
     Entry("map", "num", DEFAULT_SCORE, <<>>, "absent", <<"CRITICAL">>, 0, FALSE)}

DecideResults ==
    {[network |-> n, entity |-> e, behavioral |-> b, payment |-> p, legal |-> l] :
        n \in DecideOtherEntries, e \in DecideEntityEntries, b \in DecideOtherEntries,
        p \in DecideOtherEntries, l \in DecideOtherEntries}

DecideInputs == {[risk_score |-> sc, results |-> rs] : sc \in DecideScores, rs \in DecideResults}

DecideInit ==
    /\ OrchIdle
    /\ OtherIdle
    /\ phase = "input"
    /\ inp \in DecideInputs
    /\ ret = "none"

Decide ==
    /\ phase = "input"
    /\ ret' = determine_recommendation(inp.risk_score, inp.results)
    /\ phase' = "applied"
    /\ UNCHANGED <<inp, orchVars, otherVars>>

DecideNext == Decide

SpecDecide == DecideInit /\ [][DecideNext]_vars

\* the payload marks a structural block: the compliance-blocked flag, or a
\* matched entity with severity CRITICAL
MarksBlock(e) ==
    /\ e.kind = "map"
    /\ \/ e.complianceStatus = "BLOCKED"
       \/ \E i \in 1..Len(e.matchedEntities) : e.matchedEntities[i] = "CRITICAL"

\* as MarksBlock, the CRITICAL match being one that no element that is not a
\* mapping precedes in matchedEntities
MarksBlockReadable(e) ==
    /\ e.kind = "map"
    /\ \/ e.complianceStatus = "BLOCKED"
       \/ \E i \in 1..Len(e.matchedEntities) :
            /\ e.matchedEntities[i] = "CRITICAL"
            /\ \A j \in 1..(i - 1) : e.matchedEntities[j] # "notmap"

NoBlock(e) ==
    /\ e.kind = "map"
    /\ e.complianceStatus # "BLOCKED"
    /\ \A i \in 1..Len(e.matchedEntities) : e.matchedEntities[i] \notin {"CRITICAL", "notmap"}

(* C8: score bands: with no structural block, >= 0.7 is MANUAL_REVIEW,     *)
(* [0.5, 0.7) ENHANCED_DUE_DILIGENCE, [0.3, 0.5) STANDARD_REVIEW and       *)
(* < 0.3 AUTO_APPROVE, the lower edge of each band inclusive.              *)
C8_ScoreBands ==
    (phase = "applied" /\ NoBlock(inp.results.entity)) =>
        /\ inp.risk_score >= 7000 => ret = "MANUAL_REVIEW"
        /\ (5000 <= inp.risk_score /\ inp.risk_score < 7000) => ret = "ENHANCED_DUE_DILIGENCE"
        /\ (3000 <= inp.risk_score /\ inp.risk_score < 5000) => ret = "STANDARD_REVIEW"
        /\ inp.risk_score < 3000 => ret = "AUTO_APPROVE"

C8_Witness ==
    /\ phase = "applied"
    /\ NoBlock(inp.results.entity)
    /\ inp.risk_score = 5000
    /\ ret = "ENHANCED_DUE_DILIGENCE"

(************************ invoke_parallel_analyses *************************)
\* the entry an except branch stores: {'<signal>RiskScore': 0.3, 'error': str(e)}
\* mutant: a failed invocation counts as no risk
Default_zero(n) == Entry("map", "num", 0, <<>>, "absent", <<>>, 0, TRUE)

Default(n) == Entry("map", "num", DEFAULT_SCORE, <<>>, "absent", <<>>, 0, TRUE)

\* mutant: the handler goes on to aggregate before the last invocation
AfterInvoke_early(i, failed) ==
    IF i >= Len(Signals) - 1 THEN "assess" ELSE Signals[i + 1]

\* mutant: a failed invocation returns what was collected so far
AfterInvoke_abort(i, failed) ==
    IF failed \/ i = Len(Signals) THEN "assess" ELSE Signals[i + 1]

\* where control goes after the i-th try/except block: on to the next block,
\* and after the last one back to lambda_handler, whether the call failed or not
AfterInvoke(i, failed) == IF i = Len(Signals) THEN "assess" ELSE Signals[i + 1]

(***************************** the summary *********************************)
\* [f'<name>:{f}' for f in factors]; a prefixed tag is the pair <<name, f>>
Prefixed(name, factors) == [i \in 1..Len(factors) |-> <<name, factors[i]>>]

\* mutant: the entity block is compiled before the network block
compile_risk_factors_swapped(rs) ==
    Prefixed("entity", Get(rs, "entity").factors)
    \o Prefixed("network", Get(rs, "network").factors)
    \o Prefixed("behavioral", Get(rs, "behavioral").factors)
    \o Prefixed("payment", Get(rs, "payment").factors)
    \o Prefixed("legal", Get(rs, "legal").factors)

compile_risk_factors(rs) ==
    Prefixed("network", Get(rs, "network").factors)
    \o Prefixed("entity", Get(rs, "entity").factors)
    \o Prefixed("behavioral", Get(rs, "behavioral").factors)
    \o Prefixed("payment", Get(rs, "payment").factors)
    \o Prefixed("legal", Get(rs, "legal").factors)

RiskLevel(risk_score) ==
    IF risk_score >= Lit(80) THEN "CRITICAL"
    ELSE IF risk_score >= Lit(60) THEN "HIGH"
    ELSE IF risk_score >= Lit(40) THEN "MEDIUM"
    ELSE "LOW"

\* network_data.get('networkRiskScore', 0): a missing score reads as 0 here
NetworkScoreOrZero(e) == IF e.scoreKind = "absent" THEN 0 ELSE e.score

KeyFindings(rs) ==
    (IF NetworkScoreOrZero(Get(rs, "network")) >= 60
        THEN <<[category |-> "Network Analysis", severity |-> "HIGH",
                count |-> Len(Get(rs, "network").factors)]>> ELSE <<>>)
    \o (IF Get(rs, "entity").matchedEntities # <<>>
        THEN <<[category |-> "Entity Resolution", severity |-> "CRITICAL",
                count |-> Len(Get(rs, "entity").matchedEntities)]>> ELSE <<>>)
    \o (IF Get(rs, "behavioral").anomalies >= 3
        THEN <<[category |-> "Behavioral Analysis", severity |-> "MEDIUM",
                count |-> Get(rs, "behavioral").anomalies]>> ELSE <<>>)

\* mutant: a BLOCKED recommendation lifts the label to CRITICAL
generate_executive_summary_escalated(risk_score, recommendation, rs) ==
    [overall_risk_level |->
        IF recommendation = "BLOCKED" THEN "CRITICAL" ELSE RiskLevel(risk_score),
     recommendation |-> recommendation,
     key_findings |-> KeyFindings(rs)]

generate_executive_summary(risk_score, recommendation, rs) ==
    [overall_risk_level |-> RiskLevel(risk_score),
     recommendation |-> recommendation,
     key_findings |-> KeyFindings(rs)]

NoSummary == [overall_risk_level |-> "none", recommendation |-> "none", key_findings |-> <<>>]

(***************************** lambda_handler ******************************)
\* entry.get('<signal>RiskScore', 0.3) and event.get('fraudScore', 0.3):
\* the default stands in for a missing key only
\* mutant: the returned score is ignored
ScoreOf_defaulted(kind, score) == [k |-> "num", v |-> DEFAULT_SCORE]

ScoreOf(kind, score) ==
    IF kind = "absent" THEN [k |-> "num", v |-> DEFAULT_SCORE] ELSE [k |-> kind, v |-> score]

ExtractScores(ev, rs) ==
    [n \in ScoreNames |->
        IF n = "fraud" THEN ScoreOf(ev.fraudKind, ev.fraudScore)
        ELSE IF n = "content" THEN ScoreOf(ev.contentKind, ev.contentRiskScore)
        ELSE ScoreOf(Get(rs, n).scoreKind, Get(rs, n).score)]

\* round(x, 3) of a composite value: to the nearest multiple of 0.001, a tie
\* going to the even neighbour
Round3(c) ==
    LET q == c \div 10
        r == c % 10
    IN  IF r < 5 THEN q * 10
        ELSE IF r > 5 THEN (q + 1) * 10
        ELSE IF q % 2 = 0 THEN q * 10 ELSE (q + 1) * 10

\* mutant: the pass-through fields are emitted empty
EventGet_blank(v) == "None"

\* event.get('<field>'): None for a field the event does not have
EventGet(v) == IF v = "absent" THEN "None" ELSE v

\* the keys of the record returned on each path
OkKeys ==
    {"requestId", "vendorName", "contactEmail", "comprehensiveRiskScore", "recommendation",
     "allRiskFactors", "executiveSummary", "businessDescription", "taxId", "sourceIp",
     "submittedAt"}
FallbackKeys == {"requestId", "comprehensiveRiskScore", "recommendation", "error"}

\* the except branch of lines 123-131
Fallback(ev) ==
    [path |-> "fallback", keys |-> FallbackKeys, requestId |-> ev.requestId,
     comprehensiveRiskScore |-> Lit(50), recommendation |-> "MANUAL_REVIEW",
     allRiskFactors |-> <<>>, executiveSummary |-> NoSummary,
     vendorName |-> "absent", contactEmail |-> "absent", businessDescription |-> "absent",
     taxId |-> "absent", sourceIp |-> "absent", submittedAt |-> "absent"]

lambda_handler(ev, rs) ==
    LET scores == ExtractScores(ev, rs)
        v == [n \in ScoreNames |-> scores[n].v]
        comprehensive_risk == Composite(v)
        recommendation == determine_recommendation(comprehensive_risk, rs)
    IN  IF \E n \in SignalSet : Get(rs, n).kind = "notmap" THEN Fallback(ev)
        ELSE IF \E n \in ScoreNames : scores[n].k # "num" THEN Fallback(ev)
        ELSE IF recommendation = "RAISE" THEN Fallback(ev)
        ELSE [path |-> "ok", keys |-> OkKeys, requestId |-> ev.requestId,
              vendorName |-> EventGet(ev.vendorName),
              contactEmail |-> EventGet(ev.contactEmail),
              comprehensiveRiskScore |-> Round3(comprehensive_risk),
              recommendation |-> recommendation,
              allRiskFactors |-> compile_risk_factors(rs),
              executiveSummary |->
                  generate_executive_summary(comprehensive_risk, recommendation, rs),
              businessDescription |-> EventGet(ev.businessDescription),
              taxId |-> EventGet(ev.taxId),
              sourceIp |-> EventGet(ev.sourceIp),
              submittedAt |-> EventGet(ev.submittedAt)]

(******************* specification: one orchestrated request ***************)
OrchScores == {5, 97}
OrchFactors == {<<>>, <<"t1", "t2">>}

\* what a producer's own except branch returns
ProducerFallback == Entry("map", "num", DEFAULT_SCORE, <<"analysis_error">>, "absent", <<>>, 0, TRUE)

WellFormed(n) ==
    {Plain(sc, fs) : sc \in OrchScores, fs \in OrchFactors} \cup {ProducerFallback}
    \cup (IF n = "entity"
            THEN {Entry("map", "num", 97, <<"t1", "t2">>, "BLOCKED", <<"CRITICAL">>, 0, FALSE),
                  Entry("map", "num", 5, <<>>, "BLOCKED", <<>>, 0, FALSE),
                  Entry("map", "num", 5, <<>>, "CLEAR", <<"HIGH">>, 0, FALSE),
                  Plain(65, <<>>)}
            ELSE {})
    \cup (IF n = "behavioral"
            THEN {Entry("map", "num", 97, <<"t1", "t2">>, "absent", <<>>, 3, FALSE)}
            ELSE {})

Malformed(n) ==
    {NotMap,
     Entry("map", "absent", 0, <<"t1", "t2">>, "absent", <<>>, 0, FALSE),
     Entry("map", "null", 0, <<>>, "absent", <<>>, 0, FALSE),
     Entry("map", "str", 0, <<>>, "absent", <<>>, 0, FALSE)}
    \cup (IF n = "entity"
            THEN {Entry("map", "num", 5, <<>>, "absent", <<"notmap">>, 0, FALSE)}
            ELSE {})

NoResponse == [outcome |-> "none", payload |-> EmptyMap]

IsMalformed(n) == responses[n].outcome = "ok" /\ responses[n].payload \in Malformed(n)

\* the vendor fields of the event; a field the event does not have is "absent"
VendorFields ==
    {"vendorName", "contactEmail", "businessDescription", "taxId", "sourceIp", "submittedAt"}

\* an event: the vendor record, and the fraud detector's and the content
\* analysis' results when they ran before (fraudScore with its riskFactors,
\* contentRiskScore)
Event(id, fk, fs, tags, ck, cs, vendor) ==
    [requestId |-> id, fraudKind |-> fk, fraudScore |-> fs, riskFactors |-> tags,
     contentKind |-> ck, contentRiskScore |-> cs,
     vendorName |-> vendor.vendorName, contactEmail |-> vendor.contactEmail,
     businessDescription |-> vendor.businessDescription, taxId |-> vendor.taxId,
     sourceIp |-> vendor.sourceIp, submittedAt |-> vendor.submittedAt]

Acme ==
    [vendorName |-> "Acme", contactEmail |-> "ops@acme.test",
     businessDescription |-> "absent", taxId |-> "12-3456789",
     sourceIp |-> "203.0.113.7", submittedAt |-> "2024-01-15T10:00:00"]

Events ==
    {Event("req-1", fk, 5, <<>>, ck, 5, Acme) : fk, ck \in {"absent", "num"}}
    \cup {Event("req-1", "num", 5, <<"new_domain">>, "num", 5, Acme)}

OrchInit ==
    /\ pc = Signals[1]
    /\ event \in Events
    /\ responses = [n \in SignalSet |-> NoResponse]
    /\ results = <<>>
    /\ out = [path |-> "none"]
    /\ OtherIdle
    /\ phase = "none"
    /\ inp = <<>>
    /\ ret = 0

\* mutant: a completed invocation replaces what was collected before it
Store_replace(rs, n, e) == [m \in {n} |-> e]

\* results['<signal>'] = ...
Store(rs, n, e) == [m \in DOMAIN rs \cup {n} |-> IF m = n THEN e ELSE rs[m]]

\* the i-th try/except block: the call raises (transport error, timeout, a body
\* that is no JSON) and the default is stored, or the parsed payload is stored
Invoke(i) ==
    LET n == Signals[i]
    IN  /\ pc = n
        /\ \/ /\ responses' = [responses EXCEPT ![n] = [outcome |-> "fail", payload |-> EmptyMap]]
              /\ results' = Store(results, n, Default(n))
              /\ pc' = AfterInvoke(i, TRUE)
           \/ \E p \in WellFormed(n) \cup
                    (IF Cardinality({m \in SignalSet : IsMalformed(m)}) < MaxMalformed
                        THEN Malformed(n) ELSE {}) :
                /\ responses' = [responses EXCEPT ![n] = [outcome |-> "ok", payload |-> p]]
                /\ results' = Store(results, n, p)
                /\ pc' = AfterInvoke(i, FALSE)
        /\ UNCHANGED <<event, out, fnVars, otherVars>>

InvokeNetwork == Invoke(1)
InvokeEntity == Invoke(2)
InvokeBehavioral == Invoke(3)
InvokePayment == Invoke(4)
InvokeLegal == Invoke(5)

\* lines 52-131: the rest of lambda_handler once invoke_parallel_analyses returned
Assess ==
    /\ pc = "assess"
    /\ out' = lambda_handler(event, results)
    /\ pc' = "done"
    /\ UNCHANGED <<event, responses, results, fnVars, otherVars>>

OrchNext ==
    \/ InvokeNetwork
    \/ InvokeEntity
    \/ InvokeBehavioral
    \/ InvokePayment
    \/ InvokeLegal
    \/ Assess

SpecOrch == OrchInit /\ [][OrchNext]_vars

Failed == {n \in SignalSet : responses[n].outcome = "fail"}

Range(f) == {f[i] : i \in DOMAIN f}

(* C3: lambda_handler never raises; an internal failure yields the safe    *)
(* default: comprehensiveRiskScore 0.5, recommendation MANUAL_REVIEW and   *)
(* the single risk factor 'analysis_error', never AUTO_APPROVE.            *)
C3_SafeFallback ==
    (pc = "done" /\ out.path # "ok") =>
        /\ out.path = "fallback"
        /\ out.comprehensiveRiskScore = 5000
        /\ out.recommendation = "MANUAL_REVIEW"
        /\ "allRiskFactors" \in out.keys
        /\ out.allRiskFactors = <<"analysis_error">>

(* C4: producer-failure isolation: when exactly one producer invocation    *)
(* fails, every other producer is still invoked, results holds an entry    *)
(* for all five names, the failed one the default (score 0.3) and the      *)
(* others what their producers returned, and, those being well formed,     *)
(* the composite is computed.                                              *)
C4_FailureIsolation ==
    (pc \in {"assess", "done"} /\ Cardinality(Failed) = 1) =>
        /\ DOMAIN results = SignalSet
        /\ \A n \in SignalSet : responses[n].outcome # "none"
        /\ \A n \in Failed :
              /\ results[n].kind = "map"
              /\ results[n].scoreKind = "num"
              /\ results[n].score = 30
              /\ results[n].error
        /\ \A n \in SignalSet \ Failed : results[n] = responses[n].payload
        /\ (pc = "done" /\ \A n \in SignalSet \ Failed : responses[n].payload \in WellFormed(n))
              => (out.path = "ok" /\ "comprehensiveRiskScore" \in out.keys)

C4_Witness ==
    /\ pc = "done"
    /\ Failed = {"entity"}
    /\ \A n \in SignalSet \ Failed : results[n] = Plain(97, <<"t1", "t2">>)
    /\ results.entity.error
    /\ out.path = "ok"

(* C5: the entry substituted for a failed invocation has score 0.3 and the *)
(* single factor tag '<signal-name>:analysis_error', and the compiled      *)
(* allRiskFactors contains that tag.                                       *)
C5_FailureTagged ==
    \A n \in Failed :
        /\ n \in DOMAIN results => (results[n].scoreKind = "num" /\ results[n].score = 30)
        /\ (pc = "done" /\ out.path = "ok") => <<n, "analysis_error">> \in Range(out.allRiskFactors)

\* the payload is malformed in the sense of C6: no mapping, or a mapping whose
\* score is missing, null or not a number
BadScore(p) == p.kind = "notmap" \/ p.scoreKind \in {"absent", "null", "str"}

\* the composite over the seven scores with the default in place of signal n's
CompositeWithDefault(n) ==
    LET sc == ExtractScores(event, results)
    IN  Composite([m \in ScoreNames |-> IF m = n THEN DEFAULT_SCORE ELSE sc[m].v])

(* C6: a malformed response of one producer is recovered locally: that     *)
(* signal counts with the default score, the other signals' real scores    *)
(* feed the composite, and the request does not end in the top-level       *)
(* 0.5/MANUAL_REVIEW fallback.                                             *)
C6_MalformedRecovered ==
    \A n \in SignalSet :
        (/\ pc = "done"
         /\ responses[n].outcome = "ok"
         /\ BadScore(responses[n].payload)
         /\ \A m \in SignalSet \ {n} :
                responses[m].outcome = "ok" /\ responses[m].payload \in WellFormed(m))
        => /\ out.path = "ok"
           /\ out.comprehensiveRiskScore = Round3(CompositeWithDefault(n))

(***************************************************************************)
(* The behavioral and payment producers                                    *)
(* (src/lambda/behavioral-analysis, src/lambda/payment-history-analyzer).  *)
(* A sub-check's input is the set of findings the vendor record triggers;  *)
(* sub-risks are in hundredths.  A producer score is held as 50000*s:      *)
(* the blend max*0.6 + (sum/5)*0.4 is (300*max + 40*sum)/50000.            *)
(***************************************************************************)
ProducerOne == 50000

RECURSIVE SeqSum(_)
SeqSum(q) == IF q = <<>> THEN 0 ELSE Head(q) + SeqSum(Tail(q))

RECURSIVE SeqMax(_)
SeqMax(q) == IF Len(q) = 1 THEN Head(q) ELSE Max(Head(q), SeqMax(Tail(q)))

\* round(x, 3) of a producer score: to the nearest multiple of 0.001 (50 units),
\* a tie going to the even neighbour
Round3P(x) ==
    LET q == x \div 50
        r == x % 50
    IN  IF r < 25 THEN q * 50
        ELSE IF r > 25 THEN (q + 1) * 50
        ELSE IF q % 2 = 0 THEN q * 50 ELSE (q + 1) * 50

Add(b, h) == IF b THEN h ELSE 0

(* behavioral-analysis *)
analyze_timing_patterns(f) ==
    Add(f.outside_hours, 20) + Add(f.weekend, 15) + Add(f.late_night, 30)

analyze_data_quality(f) ==
    (IF f.name = "short" THEN 20 ELSE IF f.name = "long" THEN 10 ELSE 0)
    + Add(f.all_caps, 15)
    + (IF f.desc = "short" THEN 25 ELSE IF f.desc = "long" THEN 10 ELSE 0)
    + Add(f.repetition, 30) + Add(f.special_chars, 20)

detect_statistical_outliers(f) ==
    IF ~f.baseline THEN 0 ELSE Add(f.name_outlier, 30) + Add(f.desc_outlier, 25)

detect_bot_behavior(f) ==
    Add(f.test_pattern, 40) + Add(f.perfect_formatting, 20)
    + Add(f.placeholder, 60) + Add(f.sequential_tax_id, 50)

analyze_submission_velocity(f) == Add(f.copy_paste, 10)

\* max_risk * 0.6 + avg_risk * 0.4 over the five sub-risks
calculate_behavioral_risk(risks) ==
    IF risks = <<>> THEN 0
    ELSE (SeqMax(risks) * 300 * 5 + SeqSum(risks) * 200) \div Len(risks)

\* the handler: the blended score rounded, or 0.3 from its except branch
behavioral_lambda_handler(f) ==
    IF f.raises THEN DEFAULT_SCORE * 500
    ELSE Round3P(calculate_behavioral_risk(
            <<analyze_timing_patterns(f), analyze_data_quality(f),
              detect_statistical_outliers(f), detect_bot_behavior(f),
              analyze_submission_velocity(f)>>))

(* payment-history-analyzer *)
analyze_business_age(f) ==
    LET base == CASE f.age = "very_new" -> 60
                  [] f.age = "new" -> 40
                  [] f.age = "established" -> 0
                  [] f.age = "moderate" -> 20
                  [] OTHER -> 30
    IN  IF f.new_keyword THEN Max(base, 50) ELSE base

check_bankruptcy_indicators(f) ==
    LET r == IF f.bankruptcy THEN 95 ELSE 0
    IN  IF f.distress THEN Max(r, 60) ELSE r

analyze_financial_stability(f) ==
    LET r == IF f.positive_count = 1 THEN 10 ELSE 0
    IN  IF f.negative_count > 0 THEN Max(r, 40 + f.negative_count * 10) ELSE r

analyze_payment_terms(f) ==
    LET r == IF f.aggressive_terms THEN 50 ELSE 0
    IN  IF f.flexible_terms THEN Max(0, r - 20) ELSE r

simulate_credit_check(f) ==
    (CASE f.credit = "excellent" -> 0
       [] f.credit = "good" -> 20
       [] f.credit = "fair" -> 50
       [] OTHER -> 80)
    + Add(f.free_email, 15)

\* max_risk when it is >= 0.9, else max_risk * 0.7 + avg_risk * 0.3
calculate_payment_risk(risks) ==
    IF risks = <<>> THEN DEFAULT_SCORE * 500
    ELSE IF SeqMax(risks) >= 90 THEN SeqMax(risks) * 500
    ELSE (SeqMax(risks) * 350 * 5 + SeqSum(risks) * 150) \div Len(risks)

payment_lambda_handler(f) ==
    IF f.raises THEN DEFAULT_SCORE * 500
    ELSE Round3P(calculate_payment_risk(
            <<analyze_business_age(f), check_bankruptcy_indicators(f),
              analyze_financial_stability(f), analyze_payment_terms(f),
              simulate_credit_check(f)>>))

(**************** specification: the two producers alone *******************)
\* the findings one vendor record can trigger together: a name shorter than 5
\* characters is not all-caps (needs more than 5), 2-5 AM lies outside business
\* hours, the copy-paste check needs more than 50 words, a too-short
\* description has fewer
BehavioralFindings ==
    {f \in [outside_hours : BOOLEAN, weekend : BOOLEAN, late_night : BOOLEAN,
            name : {"short", "long", "typical"}, all_caps : BOOLEAN,
            desc : {"short", "long", "typical"}, repetition : BOOLEAN,
            special_chars : {FALSE}, baseline : BOOLEAN, name_outlier : BOOLEAN,
            desc_outlier : {FALSE}, test_pattern : BOOLEAN,
            perfect_formatting : BOOLEAN, placeholder : BOOLEAN,
            sequential_tax_id : BOOLEAN, copy_paste : BOOLEAN, raises : BOOLEAN] :
        /\ f.late_night => f.outside_hours
        /\ f.all_caps => f.name # "short"
        /\ f.copy_paste => f.desc # "short"
        /\ f.name_outlier => f.baseline
        /\ f.raises => (~f.weekend /\ ~f.outside_hours /\ ~f.baseline /\ ~f.repetition)}

NegativeKeywords == 7

PaymentFindings ==
    {f \in [age : {"very_new", "new", "established", "moderate", "no_year"},
            new_keyword : BOOLEAN, bankruptcy : BOOLEAN, distress : BOOLEAN,
            positive_count : 0..2, negative_count : 0..NegativeKeywords,
            aggressive_terms : BOOLEAN, flexible_terms : BOOLEAN,
            credit : {"excellent", "good", "fair", "poor"}, free_email : BOOLEAN,
            raises : BOOLEAN] :
        f.raises => (~f.new_keyword /\ ~f.distress /\ ~f.flexible_terms /\ ~f.free_email)}

ProducerInit ==
    /\ OrchIdle
    /\ OtherIdle
    /\ phase = "input"
    /\ inp \in {[producer |-> "behavioral", findings |-> f] : f \in BehavioralFindings}
               \cup {[producer |-> "payment", findings |-> f] : f \in PaymentFindings}
    /\ ret = 0

BehavioralAnalysis ==
    /\ phase = "input"
    /\ inp.producer = "behavioral"
    /\ ret' = behavioral_lambda_handler(inp.findings)
    /\ phase' = "applied"
    /\ UNCHANGED <<inp, orchVars, otherVars>>

PaymentAnalysis ==
    /\ phase = "input"
    /\ inp.producer = "payment"
    /\ ret' = payment_lambda_handler(inp.findings)
    /\ phase' = "applied"
    /\ UNCHANGED <<inp, orchVars, otherVars>>

ProducerNext == BehavioralAnalysis \/ PaymentAnalysis

SpecProducers == ProducerInit /\ [][ProducerNext]_vars

(* C11: behavioralRiskScore and paymentRiskScore lie in [0.0, 1.0] for     *)
(* every combination of sub-check findings.                                *)
C11_ProducerScoreInRange == phase = "applied" => (0 <= ret /\ ret <= ProducerOne)

(************ specification: the five invocations in any order *************)
\* invoke_parallel_analyses is five try/except blocks; each reads the event
\* only and writes its own key of results only.  Here the blocks complete in
\* every order, the order they are written in being one of them; inp records
\* the order of completion.
ParPayloads(n) == {Plain(5, <<>>), Plain(97, <<"t1", "t2">>)}

ParInit ==
    /\ pc = "collect"
    /\ event \in Events
    /\ responses = [n \in SignalSet |-> NoResponse]
    /\ results = <<>>
    /\ out = [path |-> "none"]
    /\ OtherIdle
    /\ phase = "none"
    /\ inp = <<>>
    /\ ret = 0

Complete(n) ==
    /\ pc = "collect"
    /\ responses[n].outcome = "none"
    /\ \/ /\ responses' = [responses EXCEPT ![n] = [outcome |-> "fail", payload |-> EmptyMap]]
          /\ results' = Store(results, n, Default(n))
       \/ \E p \in ParPayloads(n) :
            /\ responses' = [responses EXCEPT ![n] = [outcome |-> "ok", payload |-> p]]
            /\ results' = Store(results, n, p)
    /\ inp' = Append(inp, n)
    /\ pc' = IF Len(inp) + 1 = Len(Signals) THEN "assess" ELSE "collect"
    /\ UNCHANGED <<event, out, phase, ret, otherVars>>

CompleteNetwork == Complete("network")
CompleteEntity == Complete("entity")
CompleteBehavioral == Complete("behavioral")
CompletePayment == Complete("payment")
CompleteLegal == Complete("legal")

ParNext ==
    \/ CompleteNetwork
    \/ CompleteEntity
    \/ CompleteBehavioral
    \/ CompletePayment
    \/ CompleteLegal
    \/ Assess

SpecParallel == ParInit /\ [][ParNext]_vars

\* what producer n handed back: its payload, or the default after a failure
Returned(n) == IF responses[n].outcome = "fail" THEN Default(n) ELSE responses[n].payload

\* the tags of the first k signals in name order
RECURSIVE TagsByName(_)
TagsByName(k) ==
    IF k = 0 THEN <<>>
    ELSE TagsByName(k - 1) \o Prefixed(Signals[k], Returned(Signals[k]).factors)

SignalIndex(n) == CHOOSE i \in 1..Len(Signals) : Signals[i] = n

(* C12: allRiskFactors lists the tags signal by signal in the fixed order  *)
(* network, entity, behavioral, payment, legal, whatever order the         *)
(* invocations completed in, and compiling again gives the same sequence.  *)
C12_FixedFactorOrder ==
    pc = "done" =>
        /\ out.path = "ok"
        /\ out.allRiskFactors = TagsByName(Len(Signals))
        /\ \A i, j \in 1..Len(out.allRiskFactors) :
              i < j => SignalIndex(out.allRiskFactors[i][1]) <= SignalIndex(out.allRiskFactors[j][1])
        /\ compile_risk_factors(results) = out.allRiskFactors

C12_Witness ==
    /\ pc = "done"
    /\ inp = <<"legal", "payment", "behavioral", "entity", "network">>
    /\ \A n \in SignalSet : responses[n].payload = Plain(97, <<"t1", "t2">>)
    /\ Len(out.allRiskFactors) = 10
    /\ out.allRiskFactors[1] = <<"network", "t1">>

\* the results invoke_parallel_analyses builds block by block in written order
RECURSIVE InWrittenOrder(_)
InWrittenOrder(k) ==
    IF k = 0 THEN <<>>
    ELSE Store(InWrittenOrder(k - 1), Signals[k], Returned(Signals[k]))

(* C13: the composite score and the recommendation are those of the        *)
(* invocations run one after another in written order with the same        *)
(* per-producer outcomes, whatever order they completed in.                *)
C13_OrderIndependent ==
    pc = "done" =>
        LET sequential == lambda_handler(event, InWrittenOrder(Len(Signals)))
        IN  /\ out.comprehensiveRiskScore = sequential.comprehensiveRiskScore
            /\ out.recommendation = sequential.recommendation

C13_Witness ==
    /\ pc = "done"
    /\ inp = <<"legal", "network", "payment", "entity", "behavioral">>
    /\ Failed = {"payment"}
    /\ responses.legal.payload.score = 97
    /\ responses.network.payload.score = 5
    /\ out.path = "ok"

\* the tags of signal n among the compiled ones, in the order they appear
RECURSIVE TagsOf(_, _)
TagsOf(n, all) ==
    IF all = <<>> THEN <<>>
    ELSE (IF Head(all)[1] = n THEN <<Head(all)[2]>> ELSE <<>>) \o TagsOf(n, Tail(all))

\* the tags a signal with a score in the composite came with: a producer's
\* factors, the fraud detector's riskFactors in the event; content has none
SignalTags(n) ==
    IF n = "fraud" THEN (IF event.fraudKind = "num" THEN event.riskFactors ELSE <<>>)
    ELSE IF n = "content" THEN <<>>
    ELSE Get(results, n).factors

(* C14: on the success path allRiskFactors holds, for every signal whose   *)
(* score enters the composite, exactly that signal's tags in their own     *)
(* order under the signal's name, and nothing else.                        *)
C14_AllTagsCompiled ==
    (pc = "done" /\ out.path = "ok") =>
        /\ \A n \in ScoreNames : TagsOf(n, out.allRiskFactors) = SignalTags(n)
        /\ \A i \in 1..Len(out.allRiskFactors) : out.allRiskFactors[i][1] \in ScoreNames

\* the category generate_executive_summary files a signal's finding under
CategoryOf(n) ==
    CASE n = "network" -> "Network Analysis"
      [] n = "entity" -> "Entity Resolution"
      [] n = "behavioral" -> "Behavioral Analysis"
      [] OTHER -> "none"

\* the severity band of a signal score (hundredths)
SeverityBand(score) ==
    IF score >= 80 THEN "CRITICAL"
    ELSE IF score >= 60 THEN "HIGH"
    ELSE IF score >= 40 THEN "MEDIUM"
    ELSE "LOW"

Notable == {n \in SignalSet : ExtractScores(event, results)[n].v >= 60}

(* C15: on the success path key_findings has exactly one finding for each  *)
(* signal whose score is >= 0.6 and none for the others, and a finding's   *)
(* severity is the band of its signal's score.                             *)
C15_FindingPerNotableSignal ==
    (pc = "done" /\ out.path = "ok") =>
        LET findings == out.executiveSummary.key_findings
        IN  /\ Len(findings) = Cardinality(Notable)
            /\ \A n \in {"network", "entity", "behavioral"} :
                  /\ Cardinality({i \in 1..Len(findings) : findings[i].category = CategoryOf(n)})
                        = (IF n \in Notable THEN 1 ELSE 0)
                  /\ \A i \in 1..Len(findings) :
                        findings[i].category = CategoryOf(n) =>
                            findings[i].severity = SeverityBand(ExtractScores(event, results)[n].v)

\* the composite of the collected scores, before rounding
CompositeOf(ev, rs) == Composite([n \in ScoreNames |-> ExtractScores(ev, rs)[n].v])

SameLowScores(v) ==
    /\ v < DEFAULT_SCORE
    /\ event.fraudKind = "num" /\ event.fraudScore = v
    /\ event.contentKind = "num" /\ event.contentRiskScore = v
    /\ \A n \in SignalSet :
          /\ responses[n].outcome = "ok"
          /\ results[n].kind = "map"
          /\ results[n].scoreKind = "num"
          /\ results[n].score = v
          /\ results[n].factors = <<>>
          /\ results[n].matchedEntities = <<>>
          /\ results[n].anomalies = 0

CleanOutput(v) ==
    /\ out.path = "ok"
    /\ out.comprehensiveRiskScore = Lit(v)
    /\ out.recommendation = "AUTO_APPROVE"
    /\ out.allRiskFactors = <<>>
    /\ out.executiveSummary.key_findings = <<>>

FrameVendors ==
    [vendorName : {"absent", "Acme"}, contactEmail : {"absent", "ops@acme.test"},
     businessDescription : {"absent", "Industrial fasteners"},
     taxId : {"absent", "12-3456789"}, sourceIp : {"absent", "203.0.113.7"},
     submittedAt : {"absent", "2024-01-15T10:00:00"}]

FrameEvents == {Event(id, "num", 5, <<>>, "absent", 5, v) : id \in {"req-1", "req-2"}, v \in FrameVendors}

\* what invoke_parallel_analyses handed back: all producers answered, one
\* failed, or one answered with a body that is no JSON object
FrameResults ==
    {[n \in SignalSet |-> Plain(5, <<>>)],
     [n \in SignalSet |-> IF n = "legal" THEN Default(n) ELSE Plain(97, <<"t1", "t2">>)],
     [n \in SignalSet |-> IF n = "entity" THEN NotMap ELSE Plain(5, <<>>)]}

FrameInit ==
    /\ pc = "assess"
    /\ event \in FrameEvents
    /\ responses = [n \in SignalSet |-> NoResponse]
    /\ results \in FrameResults
    /\ out = [path |-> "none"]
    /\ OtherIdle
    /\ phase = "none"
    /\ inp = <<>>
    /\ ret = 0

FrameNext == Assess

SpecFrame == FrameInit /\ [][FrameNext]_vars

(* C18: the output's requestId is the input's on the success path and on   *)
(* the fallback path, and on the success path vendorName, contactEmail,    *)
(* businessDescription, taxId, sourceIp and submittedAt are emitted with   *)
(* the input's values (null for a field the input does not have).          *)
C18_PassThrough ==
    pc = "done" =>
        /\ out.path \in {"ok", "fallback"}
        /\ out.requestId = event.requestId
        /\ out.path = "ok" =>
              \A f \in VendorFields :
                  /\ f \in out.keys
                  /\ event[f] # "absent" => out[f] = event[f]
                  /\ event[f] = "absent" => out[f] = "None"

C18_Witness ==
    /\ pc = "done"
    /\ out.path = "ok"
    /\ event.requestId = "req-2"
    /\ out.requestId = "req-2"
    /\ \A f \in VendorFields : event[f] # "absent" /\ out[f] = event[f]

C18_FallbackWitness ==
    /\ pc = "done"
    /\ out.path = "fallback"
    /\ out.requestId = "req-2"

(***************************************************************************)
(* The fraud detector (src/other/lambda/fraud-detector/lambda_function.py).*)
(* Its input is the event's fields by kind and what each backend call      *)
(* (website/MX/SSL probes, the table scan, the orchestrator invocation)    *)
(* came back with.  fraudScore is held as 10000*s, sub-scores in           *)
(* hundredths.                                                             *)
(***************************************************************************)
\* trust signals: website 30 (https) or 0, MX 20 or 0, SSL 15 or 0, TLD 20 or 10
calculate_trust_signals(t) ==
    [website_exists |-> t.website, has_mx |-> t.mx,
     total_score |-> Add(t.website, 30) + Add(t.mx, 20) + Add(t.ssl, 15)
                     + (IF t.trusted_tld THEN 20 ELSE 10)]

\* a failed table scan is caught and leaves the analysis at its initial values
analyze_network_patterns(net) ==
    IF net.scan_failed THEN [risk_score |-> 0, patterns_detected |-> <<>>]
    ELSE [risk_score |-> Add(net.ip_clustering, 40) + Add(net.domain_sharing, 30),
          patterns_detected |->
              (IF net.ip_clustering THEN <<"ip_clustering">> ELSE <<>>)
              \o (IF net.domain_sharing THEN <<"domain_sharing">> ELSE <<>>)]

\* description: "absent" and "short" have fewer than 20 words; vendor name:
\* "absent" and "short" have fewer than 5 characters, "caps" is upper case
analyze_behavioral_indicators(vendor_name, description) ==
    LET short_desc == description \in {"absent", "short"}
        short_name == vendor_name \in {"absent", "short"}
    IN  [risk_score |->
            (IF short_desc THEN 20 ELSE IF description = "long" THEN 10 ELSE 0)
            + Add(short_name, 15) + Add(vendor_name = "caps", 10),
         flags |->
            (IF short_desc THEN <<"description_too_short">>
             ELSE IF description = "long" THEN <<"description_unusually_long">> ELSE <<>>)
            \o (IF short_name THEN <<"name_too_short">> ELSE <<>>)
            \o (IF vendor_name = "caps" THEN <<"name_all_caps">> ELSE <<>>)]

collect_risk_factors(trust_signals, network, behavioral) ==
    (IF trust_signals.total_score < 50 THEN <<"low_trust_score">> ELSE <<>>)
    \o (IF ~trust_signals.website_exists THEN <<"no_website">> ELSE <<>>)
    \o (IF ~trust_signals.has_mx THEN <<"no_mx_records">> ELSE <<>>)
    \o network.patterns_detected
    \o behavioral.flags

ErrorResponseKeys ==
    {"requestId", "fraudScore", "modelVersion", "riskFactors", "trustSignals",
     "networkAnalysis", "entities", "behavioralIndicators", "visualizationData"}

create_error_response(request_id, risk_score, path) ==
    [path |-> path, keys |-> ErrorResponseKeys, fraudScore |-> risk_score,
     modelVersion |-> "enhanced-v1", riskFactors |-> <<"analysis_error">>]

EnhancedKeys ==
    {"requestId", "vendorName", "contactEmail", "businessDescription", "sourceIp",
     "fraudScore", "modelVersion", "riskFactors", "networkRiskScore", "entityRiskScore",
     "behavioralRiskScore", "paymentRiskScore", "legalRiskScore", "trustScore",
     "trustSignals", "networkAnalysis", "entities", "behavioralIndicators",
     "paymentAnalysis", "paymentInsights", "reliabilityRating", "legalAnalysis",
     "legalIssues", "legalStatus", "visualizationData"}

\* advanced_results.get('<key>', default): the orchestrator's record when the
\* invocation succeeded and the record has the key
AdvancedGet(adv, key, default) ==
    IF adv.outcome = "ok" /\ adv.has_scores THEN adv[key] ELSE default

\* mutant: no clamp on the weighted sum
ClampFinalRisk_none(final_risk) == final_risk

\* max(0.05, min(0.95, final_risk))
ClampFinalRisk(final_risk) == Max(500, Min(9500, final_risk))

fraud_detector_lambda_handler(e) ==
    IF e.businessDescription = "null" \/ e.contactEmail = "null"
        THEN create_error_response(e.requestId, 5000, "exception")
    ELSE IF e.contactEmail # "domain"
        THEN create_error_response(e.requestId, 9500, "missing_domain")
    ELSE IF e.vendorName = "null"
        THEN create_error_response(e.requestId, 5000, "exception")
    ELSE
        LET trust_signals == calculate_trust_signals(e.trust)
            network_analysis == analyze_network_patterns(e.network)
            behavioral_indicators ==
                analyze_behavioral_indicators(e.vendorName, e.businessDescription)
            adv == e.orchestrator
            network_risk == AdvancedGet(adv, "networkRiskScore", network_analysis.risk_score)
            behavioral_risk ==
                AdvancedGet(adv, "behavioralRiskScore", behavioral_indicators.risk_score)
            payment_risk == AdvancedGet(adv, "paymentRiskScore", DEFAULT_SCORE)
            legal_risk == AdvancedGet(adv, "legalRiskScore", DEFAULT_SCORE)
            entity_risk == AdvancedGet(adv, "entityRiskScore", DEFAULT_SCORE)
            final_risk ==
                (100 - trust_signals.total_score) * 20 + network_risk * 15
                + behavioral_risk * 15 + payment_risk * 15 + legal_risk * 20
                + entity_risk * 15
        IN  [path |-> "normal", keys |-> EnhancedKeys,
             fraudScore |-> Round3(ClampFinalRisk(final_risk)),
             modelVersion |-> "enhanced-v2-with-payment-legal",
             riskFactors |->
                 collect_risk_factors(trust_signals, network_analysis, behavioral_indicators)]

(**************** specification: the fraud detector alone ******************)
\* contactEmail: missing, '', a string without a domain part, an address, null
EmailKinds == {"absent", "empty", "nodomain", "domain", "null"}
NameKinds == {"absent", "short", "caps", "typical", "null"}
DescriptionKinds == {"absent", "short", "typical", "long", "null"}

TrustProbes ==
    {[website |-> w, mx |-> m, ssl |-> w, trusted_tld |-> t] : w, m, t \in BOOLEAN}

NetworkScans ==
    {[scan_failed |-> TRUE, ip_clustering |-> FALSE, domain_sharing |-> FALSE]}
    \cup [scan_failed : {FALSE}, ip_clustering : BOOLEAN, domain_sharing : BOOLEAN]

\* the orchestrator invocation: it raised, it returned a record without the
\* per-signal scores (its fallback, a Lambda error body), or its full record;
\* a producer score can lie above 1.0
AdvancedScores == {0, 118}

Advanced(outcome, has_scores, nb, pay, legal, ent) ==
    [outcome |-> outcome, has_scores |-> has_scores, networkRiskScore |-> nb,
     behavioralRiskScore |-> nb, paymentRiskScore |-> pay, legalRiskScore |-> legal,
     entityRiskScore |-> ent]

OrchestratorOutcomes ==
    {Advanced("fail", FALSE, 0, 0, 0, 0), Advanced("ok", FALSE, 0, 0, 0, 0)}
    \cup {Advanced("ok", TRUE, nb, pay, legal, ent) : nb, pay, legal, ent \in AdvancedScores}

FraudEvents ==
    [requestId : {"req-1"}, contactEmail : EmailKinds, vendorName : NameKinds,
     businessDescription : DescriptionKinds, trust : TrustProbes,
     network : NetworkScans, orchestrator : OrchestratorOutcomes]

FraudInit ==
    /\ OrchIdle
    /\ OtherIdle
    /\ phase = "input"
    /\ inp \in FraudEvents
    /\ ret = 0

FraudDetect ==
    /\ phase = "input"
    /\ ret' = fraud_detector_lambda_handler(inp)
    /\ phase' = "applied"
    /\ UNCHANGED <<inp, orchVars, otherVars>>

FraudNext == FraudDetect

SpecFraud == FraudInit /\ [][FraudNext]_vars

\* the handler got past the domain check and a backend call it then made
\* failed: the table scan or the invocation of the advanced risk orchestrator
BackendFailed ==
    /\ inp.contactEmail = "domain"
    /\ inp.businessDescription # "null"
    /\ inp.network.scan_failed \/ inp.orchestrator.outcome = "fail"

(* C19: when a backend call of the fraud detector fails, the handler       *)
(* returns fraudScore 0.5 and a record that has an 'error' field.          *)
C19_BackendFailureDefault ==
    (phase = "applied" /\ BackendFailed) =>
        (ret.fraudScore = 5000 /\ "error" \in ret.keys)

(* C20: on the normal, the missing-domain and the exception path the       *)
(* handler returns a record with fraudScore, modelVersion and riskFactors, *)
(* and 0.0 <= fraudScore <= 1.0.                                           *)
C20_ResultShape ==
    phase = "applied" =>
        /\ ret.path \in {"normal", "missing_domain", "exception"}
        /\ {"fraudScore", "modelVersion", "riskFactors"} \subseteq ret.keys
        /\ 0 <= ret.fraudScore
        /\ ret.fraudScore <= One

\* the normal path with every producer score above 1.0 and no trust at all
C20_Witness ==
    /\ phase = "applied"
    /\ ret.path = "normal"
    /\ inp.vendorName = "absent"
    /\ inp.orchestrator = Advanced("ok", TRUE, 118, 118, 118, 118)
    /\ ~inp.trust.website
    /\ ret.fraudScore = 9500

C20_MissingDomainWitness ==
    /\ phase = "applied"
    /\ inp.contactEmail = "absent"
    /\ ret.path = "missing_domain"
    /\ ret.fraudScore = 9500

C20_ExceptionWitness ==
    /\ phase = "applied"
    /\ inp.vendorName = "null"
    /\ ret.path = "exception"
    /\ ret.fraudScore = 5000

(***************************************************************************)
(* combine-scores (src/other/lambda/combine-scores/lambda_function.py).    *)
(* Input scores are in thousandths, weights in tenths, so the combined     *)
(* score is held as 10000*s.                                               *)
(***************************************************************************)
FRAUD_SCORE_WEIGHT == 7
CONTENT_RISK_WEIGHT == 3
MANUAL_REVIEW_THRESHOLD == 5000
AUTO_APPROVE_THRESHOLD == 3000
CombineScoreOne == 1000

\* round(x, 2): the nearest multiple of 0.01; the weighted sum is a binary
\* float, so a value that is a decimal tie lands on either neighbour
Round2(x) ==
    LET q == x \div 100
        r == x % 100
    IN  IF r < 50 THEN {q * 100}
        ELSE IF r > 50 THEN {(q + 1) * 100}
        ELSE {q * 100, (q + 1) * 100}

\* mutant: a combined score equal to the threshold is approved
CombineRecommendation_strict(combined_risk_score) ==
    IF combined_risk_score > MANUAL_REVIEW_THRESHOLD THEN "MANUAL_REVIEW" ELSE "AUTO_APPROVE"

CombineRecommendation(combined_risk_score) ==
    IF combined_risk_score >= MANUAL_REVIEW_THRESHOLD THEN "MANUAL_REVIEW" ELSE "AUTO_APPROVE"

CombineRaise == [path |-> "raise", keys |-> {}, combinedRiskScore |-> 0, recommendation |-> "none"]

\* mutant: an out-of-range score is clamped instead of rejected
InvalidScore_lenient(kind, score) == kind # "num"

\* the checks of lines 44-59 on one score: None (missing key or null), a
\* value that does not compare with a float, a number outside [0.0, 1.0]
InvalidScore(kind, score) ==
    kind # "num" \/ score < 0 \/ score > CombineScoreOne

\* the set of records the handler can return for event e
combine_scores_lambda_handler(e) ==
    IF InvalidScore(e.fraudKind, e.fraudScore) \/ InvalidScore(e.contentKind, e.contentRiskScore)
        THEN {CombineRaise}
    ELSE {[path |-> "ok", keys |-> {"combinedRiskScore", "recommendation"},
           combinedRiskScore |-> c, recommendation |-> CombineRecommendation(c)] :
            c \in Round2(e.fraudScore * FRAUD_SCORE_WEIGHT
                         + e.contentRiskScore * CONTENT_RISK_WEIGHT)}

(****************** specification: combine-scores alone ********************)
CombineNumbers == {-1, 0, 5, 300, 495, 500, 505, 715, 1000, 1001}

CombineScoreInputs ==
    {[kind |-> k, score |-> 0] : k \in {"absent", "null", "str"}}
    \cup {[kind |-> "num", score |-> v] : v \in CombineNumbers}

CombineEvents ==
    {[fraudKind |-> f.kind, fraudScore |-> f.score,
      contentKind |-> c.kind, contentRiskScore |-> c.score] :
        f \in CombineScoreInputs, c \in CombineScoreInputs}

CombineInit ==
    /\ OrchIdle
    /\ OtherIdle
    /\ phase = "input"
    /\ inp \in CombineEvents
    /\ ret = 0

CombineScores ==
    /\ phase = "input"
    /\ ret' \in combine_scores_lambda_handler(inp)
    /\ phase' = "applied"
    /\ UNCHANGED <<inp, orchVars, otherVars>>

CombineNext == CombineScores

SpecCombine == CombineInit /\ [][CombineNext]_vars

ValidScores ==
    /\ inp.fraudKind = "num" /\ inp.fraudScore \in 0..CombineScoreOne
    /\ inp.contentKind = "num" /\ inp.contentRiskScore \in 0..CombineScoreOne

(* C21: for both scores in [0,1] the combined score is 0.7*fraudScore +    *)
(* 0.3*contentRiskScore rounded to 2 decimals, the recommendation is       *)
(* MANUAL_REVIEW exactly when that combined score is >= 0.5 and            *)
(* AUTO_APPROVE otherwise; below 0.3 it is AUTO_APPROVE.                   *)
C21_SingleThreshold ==
    (phase = "applied" /\ ValidScores) =>
        LET exact == 7 * inp.fraudScore + 3 * inp.contentRiskScore
        IN  /\ ret.path = "ok"
            /\ ret.combinedRiskScore % 100 = 0
            /\ ret.combinedRiskScore - exact <= 50
            /\ exact - ret.combinedRiskScore <= 50
            /\ (ret.recommendation = "MANUAL_REVIEW") <=> (ret.combinedRiskScore >= 5000)
            /\ (ret.recommendation = "AUTO_APPROVE") <=> (ret.combinedRiskScore < 5000)
            /\ ret.combinedRiskScore < 3000 => ret.recommendation = "AUTO_APPROVE"

\* a combined score of exactly 0.5
C21_Witness ==
    /\ phase = "applied"
    /\ inp.fraudKind = "num" /\ inp.fraudScore = 500
    /\ inp.contentKind = "num" /\ inp.contentRiskScore = 500
    /\ ret.combinedRiskScore = 5000
    /\ ret.recommendation = "MANUAL_REVIEW"

(* C22: when fraudScore or contentRiskScore is missing or lies outside     *)
(* [0.0, 1.0] the handler raises: no combined score, no recommendation.    *)
C22_InvalidRejected ==
    (phase = "applied" /\ ~ValidScores) =>
        /\ ret.path = "raise"
        /\ "combinedRiskScore" \notin ret.keys
        /\ "recommendation" \notin ret.keys

\* a valid fraudScore with a contentRiskScore just above 1.0
C22_Witness ==
    /\ phase = "applied"
    /\ inp.fraudKind = "num" /\ inp.fraudScore = 300
    /\ inp.contentKind = "num" /\ inp.contentRiskScore = 1001
    /\ ret.path = "raise"

(***************************************************************************)
(* save-dynamo (src/other/lambda/save-dynamo/lambda_function.py):          *)
(* save_with_retry as called by lambda_handler with the item it built.     *)
(***************************************************************************)
MAX_RETRIES == 3
INITIAL_BACKOFF == 1
BACKOFF_MULTIPLIER == 2

\* what one put_item call can raise: the two errors with a handler that
\* re-raises, the throughput error, and any other exception
FatalErrors == {"ResourceNotFoundException", "ConditionalCheckFailedException"}
RetryableErrors == {"ProvisionedThroughputExceededException", "InternalServerError"}

\* mutant: only a missing table ends the loop
IsRetryable_conditional(error) == error # "ResourceNotFoundException"

\* the except clause an error lands in: lines 282-291 and 303-311 retry
IsRetryable(error) == error \notin FatalErrors

\* mutant: the sleep is taken after the last attempt too
SleepsAfter_always(n) == TRUE

\* if attempt < MAX_RETRIES
SleepsAfter(n) == n < MAX_RETRIES

PutCall(error) == [op |-> "put_item", error |-> error, seconds |-> 0]
SleepCall(seconds) == [op |-> "sleep", error |-> "none", seconds |-> seconds]

\* the statuses of the items lambda_handler builds
SaveItems == {"SUBMITTED", "APPROVED", "MANUAL_REVIEW"}

SaveInit ==
    /\ OrchIdle
    /\ AuthIdle
    /\ phase = "none"
    /\ inp \in SaveItems
    /\ ret = 0
    /\ save_pc = "put"
    /\ attempt = 1
    /\ backoff = INITIAL_BACKOFF
    /\ last_error = "none"
    /\ calls = <<>>
    /\ save_result = "none"

\* put_item succeeds: return
PutItemOk ==
    /\ save_pc = "put"
    /\ calls' = Append(calls, PutCall("none"))
    /\ save_result' = "returned"
    /\ save_pc' = "done"
    /\ UNCHANGED <<attempt, backoff, last_error, orchVars, fnVars, authVars>>

\* put_item raises and the error is one of those that are re-raised at once
PutItemFatal ==
    /\ save_pc = "put"
    /\ \E e \in FatalErrors \cup RetryableErrors :
        /\ ~IsRetryable(e)
        /\ calls' = Append(calls, PutCall(e))
        /\ save_result' = e
    /\ save_pc' = "done"
    /\ UNCHANGED <<attempt, backoff, last_error, orchVars, fnVars, authVars>>

\* put_item raises another error: remember it, sleep unless this was the last
\* attempt, go round the loop
PutItemRetry ==
    /\ save_pc = "put"
    /\ \E e \in FatalErrors \cup RetryableErrors :
        /\ IsRetryable(e)
        /\ last_error' = e
        /\ IF SleepsAfter(attempt)
              THEN /\ calls' = calls \o <<PutCall(e), SleepCall(backoff)>>
                   /\ backoff' = backoff * BACKOFF_MULTIPLIER
              ELSE /\ calls' = Append(calls, PutCall(e))
                   /\ backoff' = backoff
    /\ attempt' = attempt + 1
    /\ save_pc' = IF attempt + 1 > MAX_RETRIES THEN "exhausted" ELSE "put"
    /\ UNCHANGED <<save_result, orchVars, fnVars, authVars>>

\* the loop ran out: raise last_error
RaiseLastError ==
    /\ save_pc = "exhausted"
    /\ save_result' = last_error
    /\ save_pc' = "done"
    /\ UNCHANGED <<attempt, backoff, last_error, calls, orchVars, fnVars, authVars>>

SaveNext == PutItemOk \/ PutItemFatal \/ PutItemRetry \/ RaiseLastError

SpecSave == SaveInit /\ [][SaveNext]_vars

Puts == SelectSeq(calls, LAMBDA c : c.op = "put_item")
Sleeps == SelectSeq(calls, LAMBDA c : c.op = "sleep")

(* C23: save_with_retry makes at most MAX_RETRIES = 3 put_item attempts,   *)
(* makes none after a successful one, raises the last error when all three *)
(* fail with retryable errors, sleeps 1s then 2s between attempts and      *)
(* never after the final attempt.                                          *)
C23_BoundedRetry ==
    /\ Len(Puts) <= 3
    /\ \A i \in 1..Len(calls) :
          (calls[i].op = "put_item" /\ calls[i].error = "none") =>
              (i = Len(calls) /\ save_pc = "done" /\ save_result = "returned")
    /\ \A i \in 1..Len(Sleeps) : Sleeps[i].seconds = i
    /\ Len(Sleeps) <= 2
    /\ \A i \in 1..Len(calls) :
          calls[i].op = "sleep" => (i > 1 /\ calls[i - 1].op = "put_item")
    /\ save_pc \in {"exhausted", "done"} => calls[Len(calls)].op = "put_item"
    /\ (save_pc = "done" /\ Len(Puts) = 3 /\ Puts[3].error \in RetryableErrors) =>
          (save_result = Puts[3].error /\ Len(Sleeps) = 2)
    /\ save_pc = "put" => (Len(Puts) = attempt - 1 /\ Len(Sleeps) = attempt - 1)

\* three failed attempts, the last error differing from the first
C23_Witness ==
    /\ save_pc = "done"
    /\ calls = <<PutCall("ProvisionedThroughputExceededException"), SleepCall(1),
                 PutCall("ProvisionedThroughputExceededException"), SleepCall(2),
                 PutCall("InternalServerError")>>
    /\ save_result = "InternalServerError"

(* C28: a put_item that raises ResourceNotFoundException or                *)
(* ConditionalCheckFailedException is the last call save_with_retry makes: *)
(* the error is raised on that attempt, no put_item and no sleep follows.  *)
C28_FatalNotRetried ==
    \A i \in 1..Len(calls) :
        (calls[i].op = "put_item" /\ calls[i].error \in FatalErrors) =>
            /\ i = Len(calls)
            /\ save_pc = "done"
            /\ save_result = calls[i].error

\* a failed conditional check on the second attempt
C28_Witness ==
    /\ save_pc = "done"
    /\ calls = <<PutCall("InternalServerError"), SleepCall(1),
                 PutCall("ConditionalCheckFailedException")>>
    /\ save_result = "ConditionalCheckFailedException"

(***************************************************************************)
(* notify-admin (src/other/lambda/notify-admin/lambda_function.py).        *)
(* The event's fields are given by kind; the topic is the environment's    *)
(* SNS_TOPIC_ARN, publish what sns.publish does when it is called.         *)
(***************************************************************************)
\* build_notification_message: redactedData.get on a value that is no dict
\* and the :.2f format of a score that is no number raise
build_notification_message(e) ==
    IF e.redactedData = "notdict" \/ e.combinedRiskScore \in {"str", "null"}
        THEN "raise" ELSE "ok"

\* build_notification_subject: len() of a null vendor name and request_id[:8]
\* of a number raise
build_notification_subject(e) ==
    IF e.redactedData = "notdict" \/ e.vendorName = "null" \/ e.requestId = "number"
        THEN "raise" ELSE "ok"

\* mutant: an unset topic is skipped silently
publish_notification_unchecked(e) ==
    IF e.topic = "unset" THEN "ok"
    ELSE IF e.publish = "ok" THEN "ok" ELSE "raise"

\* ValueError when SNS_TOPIC_ARN is empty, else whatever sns.publish does
publish_notification(e) ==
    IF e.topic = "unset" THEN "raise"
    ELSE IF e.publish = "ok" THEN "ok" ELSE "raise"

\* event.get('requestId', 'unknown')
NotifyRequestId(e) == IF e.requestId = "absent" THEN "unknown" ELSE e.requestId

notify_admin_lambda_handler(e) ==
    LET raised ==
            \/ build_notification_message(e) = "raise"
            \/ build_notification_subject(e) = "raise"
            \/ publish_notification(e) = "raise"
    IN  [statusCode |-> 200, requestId |-> NotifyRequestId(e),
         notificationSent |-> ~raised,
         path |-> IF raised THEN "except" ELSE "try"]

(******************* specification: notify-admin alone *********************)
NotifyEvents ==
    [requestId : {"absent", "req-1", "number"},
     redactedData : {"absent", "dict", "notdict"},
     vendorName : {"absent", "short", "long", "null"},
     combinedRiskScore : {"absent", "num", "str", "null"},
     topic : {"set", "unset"},
     publish : {"ok", "ClientError", "EndpointConnectionError"}]

NotifyInit ==
    /\ OrchIdle
    /\ OtherIdle
    /\ phase = "input"
    /\ inp \in NotifyEvents
    /\ ret = 0

NotifyAdmin ==
    /\ phase = "input"
    /\ ret' = notify_admin_lambda_handler(inp)
    /\ phase' = "applied"
    /\ UNCHANGED <<inp, orchVars, otherVars>>

NotifyNext == NotifyAdmin

SpecNotify == NotifyInit /\ [][NotifyNext]_vars

\* the publish call was made and succeeded
Published ==
    /\ inp.redactedData # "notdict"
    /\ inp.combinedRiskScore \in {"absent", "num"}
    /\ inp.vendorName # "null"
    /\ inp.requestId # "number"
    /\ inp.topic = "set"
    /\ inp.publish = "ok"

(* C24: the handler always returns statusCode 200; whenever building or    *)
(* publishing the notification fails (unset SNS_TOPIC_ARN, a publish       *)
(* error, a field that cannot be formatted) notificationSent is false, and *)
(* notificationSent is true only if the publish call succeeded.            *)
C24_NeverFailsWorkflow ==
    phase = "applied" =>
        /\ ret.statusCode = 200
        /\ ret.notificationSent \in BOOLEAN
        /\ ~Published => ~ret.notificationSent
        /\ ret.notificationSent => Published

\* a publish error on an event that formats well
C24_Witness ==
    /\ phase = "applied"
    /\ inp.topic = "set"
    /\ inp.publish = "ClientError"
    /\ inp.redactedData = "dict"
    /\ inp.vendorName = "long"
    /\ inp.combinedRiskScore = "num"
    /\ ret.statusCode = 200
    /\ ~ret.notificationSent

(***************************************************************************)
(* The orchestrator again: collection before aggregation, total outage.    *)
(***************************************************************************)
(* C25: aggregation begins only after all results are collected: the step  *)
(* that runs calculate_comprehensive_risk, determine_recommendation and    *)
(* compile_risk_factors is taken only in a state where each of the five    *)
(* signal names has an entry, real or defaulted, in results.               *)
C25_CollectBeforeAggregate ==
    [][(out' # out \/ (pc # "done" /\ pc' = "done")) =>
            (/\ DOMAIN results = SignalSet
             /\ \A n \in SignalSet : responses[n].outcome # "none")]_vars

\* aggregation ran over three real and two defaulted entries
C25_Witness ==
    /\ pc = "done"
    /\ out.path = "ok"
    /\ Failed = {"entity", "legal"}
    /\ DOMAIN results = SignalSet
    /\ \A n \in SignalSet \ Failed : results[n] = responses[n].payload

\* every invocation failed and the event carries neither earlier score
TotalOutage ==
    /\ Failed = SignalSet
    /\ event.fraudKind = "absent"
    /\ event.contentKind = "absent"

(* C26: total outage is never auto-approved: when all five invocations     *)
(* fail and the event has no fraudScore and no contentRiskScore, each of   *)
(* the seven inputs is the default 0.3, the composite is 0.3 and the       *)
(* recommendation is STANDARD_REVIEW.                                      *)
C26_OutageNotApproved ==
    (pc = "done" /\ TotalOutage) =>
        /\ \A n \in ScoreNames : ExtractScores(event, results)[n] = [k |-> "num", v |-> DEFAULT_SCORE]
        /\ out.path = "ok"
        /\ out.comprehensiveRiskScore = Lit(DEFAULT_SCORE)
        /\ out.recommendation = "STANDARD_REVIEW"
        /\ out.recommendation # "AUTO_APPROVE"

C26_Witness ==
    /\ pc = "done"
    /\ TotalOutage
    /\ out.recommendation = "STANDARD_REVIEW"
    /\ out.comprehensiveRiskScore = 3000

(***************************************************************************)
(* entity-resolution (src/lambda/entity-resolution/lambda_function.py) and *)
(* what the orchestrator makes of its payload.  The vendor record is given *)
(* by what the screens find in it: sdn, the number of SANCTIONS_LIST       *)
(* entities the vendor name matches; persons, the number of listed         *)
(* individuals among the extracted entities; keywords, jurisdiction,       *)
(* negative_count, pep_title likewise.  vendor_name and email are "null"   *)
(* when the event has no such field.  Sub-risks are in hundredths, the     *)
(* producer's score in thousandths.                                        *)
(***************************************************************************)
MaxListHits == 2

\* n copies of x
Rep(n, x) == [i \in 1..n |-> x]

\* both kinds of record carry 'severity': 'CRITICAL'
SanctionsMatch == [type |-> "SANCTIONS", list |-> "OFAC_SDN", severity |-> "CRITICAL"]
PepMatch == [type |-> "PEP", list |-> "OFAC_SDN", severity |-> "CRITICAL"]

\* vendor_name.lower() raises on None
check_sanctions_lists(v) ==
    IF v.vendor_name = "null" THEN [raised |-> TRUE, risk |-> 0, factors |-> <<>>, matches |-> <<>>]
    ELSE LET r1 == IF v.sdn > 0 THEN 100 ELSE 0
             r2 == IF v.persons > 0 THEN Max(r1, 95) ELSE r1
             r3 == IF v.keywords THEN Max(r2, 70) ELSE r2
         IN  [raised |-> FALSE, risk |-> r3,
              factors |-> Rep(v.sdn, "sanctions_match") \o Rep(v.persons, "pep_match")
                          \o (IF v.keywords THEN <<"sanctions_keyword">> ELSE <<>>),
              matches |-> Rep(v.sdn, SanctionsMatch) \o Rep(v.persons, PepMatch)]

check_jurisdictions(v) ==
    [risk |-> IF v.jurisdiction THEN 80 ELSE 0,
     factors |-> IF v.jurisdiction THEN <<"high_risk_jurisdiction">> ELSE <<>>]

screen_negative_news(v) ==
    [risk |-> IF v.negative_count > 0 THEN Min(70, 30 + v.negative_count * 10) ELSE 0,
     factors |-> Rep(v.negative_count, "negative_news")]

screen_pep(v) ==
    [risk |-> IF v.pep_title THEN 60 ELSE 0,
     factors |-> IF v.pep_title THEN <<"pep_title">> ELSE <<>>]

\* '@' in email raises on None
verify_corporate_registry(v) ==
    IF v.email = "null" THEN [raised |-> TRUE, risk |-> 0, factors |-> <<>>]
    ELSE [raised |-> FALSE,
          risk |-> Add(~v.has_corporate_suffix, 20) + Add(v.email = "mismatch", 15),
          factors |-> (IF v.has_corporate_suffix THEN <<>> ELSE <<"no_corporate_suffix">>)
                      \o (IF v.email = "mismatch" THEN <<"email_domain_mismatch">> ELSE <<>>)]

\* in ten-thousandths: max_risk when it reaches 0.95, else max*0.6 + avg*0.4
calculate_entity_risk(risks) ==
    IF SeqMax(risks) >= 95 THEN SeqMax(risks) * 100
    ELSE 60 * SeqMax(risks) + 8 * SeqSum(risks)

determine_compliance_status(risk_score, matches) ==
    IF \E i \in 1..Len(matches) : matches[i].severity = "CRITICAL" THEN "BLOCKED"
    ELSE IF risk_score >= 8000 THEN "HIGH_RISK"
    ELSE IF risk_score >= 5000 THEN "MEDIUM_RISK"
    ELSE "CLEAR"

\* the except branch of lines 136-146
EntityFallback ==
    [path |-> "except", entityRiskScore |-> 300, entityRiskFactors |-> <<"analysis_error">>,
     matchedEntities |-> <<>>, complianceStatus |-> "UNKNOWN", error |-> TRUE]

\* round(x, 3) of a score in ten-thousandths, in thousandths; the scores
\* computed above are even, so no tie occurs
RoundEntity(x) == (x + 5) \div 10

entity_lambda_handler(v) ==
    LET sanctions == check_sanctions_lists(v)
        jurisdiction == check_jurisdictions(v)
        news == screen_negative_news(v)
        pep == screen_pep(v)
        registry == verify_corporate_registry(v)
        entity_risk_score ==
            calculate_entity_risk(<<sanctions.risk, jurisdiction.risk, news.risk, pep.risk,
                                    registry.risk>>)
    IN  IF sanctions.raised \/ registry.raised THEN EntityFallback
        ELSE [path |-> "ok", entityRiskScore |-> RoundEntity(entity_risk_score),
              entityRiskFactors |-> sanctions.factors \o jurisdiction.factors \o news.factors
                                    \o pep.factors \o registry.factors,
              matchedEntities |-> sanctions.matches,
              complianceStatus |->
                  determine_compliance_status(entity_risk_score, sanctions.matches),
              error |-> FALSE]

\* the producer's payload as the orchestrator's results entry; the score is
\* kept in thousandths
EntityEntry(p) ==
    Entry("map", "num", p.entityRiskScore, p.entityRiskFactors, p.complianceStatus,
          [i \in 1..Len(p.matchedEntities) |-> p.matchedEntities[i].severity], 0, p.error)

\* calculate_comprehensive_risk with the entity score in thousandths and the
\* other six in hundredths; the result is in units of 1/100000
calculate_comprehensive_risk_fine(entity, s) ==
    LET comprehensive ==
            10 * WeightedSum(s.network, 0, s.behavioral, s.payment, s.legal, s.fraud, s.content)
            + entity * WEIGHTS.entity
        c1 == IF entity >= 950 THEN Max(comprehensive, 10 * Lit(95)) ELSE comprehensive
        c2 == IF s.legal >= 90 THEN Max(c1, 10 * Lit(90)) ELSE c1
    IN  Min(10 * One, c2)

\* lines 52-71 of the orchestrator on the producer's payload p and the other
\* scores s: the composite, and the recommendation, whose bands compare the
\* composite with multiples of 0.1
OrchestrateEntity(p, s) ==
    LET comprehensive_risk == calculate_comprehensive_risk_fine(p.entityRiskScore, s)
    IN  [path |-> "ok", comprehensiveRiskScore |-> comprehensive_risk,
         recommendation |->
             determine_recommendation(comprehensive_risk \div 10,
                                      [n \in {"entity"} |-> EntityEntry(p)])]

(************* specification: entity-resolution and orchestrator ***********)
EntityVendors ==
    [vendor_name : {"str", "null"}, sdn : 0..MaxListHits, has_corporate_suffix : BOOLEAN,
     email : {"match", "mismatch", "no_at", "null"}, persons : 0..MaxListHits,
     keywords : BOOLEAN, jurisdiction : BOOLEAN, negative_count : {0, 1, 5},
     pep_title : BOOLEAN]

OtherScores ==
    {[network |-> a, behavioral |-> b, payment |-> c, legal |-> d,
      fraud |-> DEFAULT_SCORE, content |-> DEFAULT_SCORE] : a, b, c, d \in OrchScores}

EntityInit ==
    /\ OrchIdle
    /\ OtherIdle
    /\ phase = "input"
    /\ inp \in [vendor : EntityVendors, others : OtherScores]
    /\ ret = 0

EntityResolve ==
    /\ phase = "input"
    /\ ret' = [payload |-> entity_lambda_handler(inp.vendor), orchestrated |-> [path |-> "none"]]
    /\ phase' = "resolved"
    /\ UNCHANGED <<inp, orchVars, otherVars>>

EntityOrchestrate ==
    /\ phase = "resolved"
    /\ ret' = [ret EXCEPT !.orchestrated = OrchestrateEntity(ret.payload, inp.others)]
    /\ phase' = "assessed"
    /\ UNCHANGED <<inp, orchVars, otherVars>>

EntityNext == EntityResolve \/ EntityOrchestrate

SpecEntity == EntityInit /\ [][EntityNext]_vars

\* the vendor matches a sanctioned entity or a listed individual
HasListMatch(v) == (v.vendor_name = "str" /\ v.sdn > 0) \/ v.persons > 0

(* C27: every sanctions or PEP list match is recorded with severity        *)
(* CRITICAL; whenever matchedEntities is non-empty, complianceStatus is    *)
(* BLOCKED and entityRiskScore >= 0.95; and a vendor with a list match     *)
(* whose entity producer responds is BLOCKED by the orchestrator with a    *)
(* composite >= 0.95, whatever the other signals say.                      *)
C27_SanctionsBlocked ==
    phase \in {"resolved", "assessed"} =>
        LET p == ret.payload
        IN  /\ \A i \in 1..Len(p.matchedEntities) : p.matchedEntities[i].severity = "CRITICAL"
            /\ p.matchedEntities # <<>> =>
                  (p.complianceStatus = "BLOCKED" /\ p.entityRiskScore >= 950)
            /\ (phase = "assessed" /\ HasListMatch(inp.vendor)) =>
                  /\ ret.orchestrated.recommendation = "BLOCKED"
                  /\ ret.orchestrated.comprehensiveRiskScore >= 10 * Lit(95)

(***************************************************************************)
(* auth-handler: handle_login                                              *)
(* (src/lambda/auth-handler/lambda_function.py).  user is the item of one  *)
(* registered user in the users table; login[c] is one handle_login call:  *)
(* kind tells whether the submitted email is this user's and whether the   *)
(* password verifies, item is what get_item returned to it.  trail lists   *)
(* the finished calls in the order they returned.  The table calls         *)
(* themselves succeed.                                                     *)
(***************************************************************************)
MaxLogins == 7
LOCK_THRESHOLD == 5

\* handle_login invocations that may run at the same time
Callers == {1, 2}

LoginKinds == {"right_password", "wrong_password", "unknown_email"}

NoCall ==
    [pc |-> "idle", kind |-> "none", item |-> [accountLocked |-> FALSE, failedLoginAttempts |-> 0]]

Stored == [accountLocked |-> user.accountLocked, failedLoginAttempts |-> user.failedLoginAttempts]

InFlight == {c \in Callers : login[c].pc # "idle"}

\* handle_register's put_item (lines 88-104); mfaEnabled is switched on
\* outside this handler
LoginInit ==
    /\ OrchIdle
    /\ SaveIdle
    /\ phase = "none"
    /\ inp = <<>>
    /\ ret = 0
    /\ user \in [accountLocked : {FALSE}, failedLoginAttempts : {0}, mfaEnabled : BOOLEAN,
                 lastLogin : {"None"}]
    /\ login = [c \in Callers |-> NoCall]
    /\ trail = <<>>

\* the call returns: response(status, ...) with the tokens it carries
Return(c, kind, item, status, tokens) ==
    /\ login' = [login EXCEPT ![c] = NoCall]
    /\ trail' = Append(trail, [kind |-> kind, status |-> status, tokens |-> tokens,
                               read |-> item, stored |-> Stored'])

\* mutant: the account locks only after the threshold is exceeded
Locks_after(failed_attempts) == failed_attempts > LOCK_THRESHOLD

\* ':locked': failed_attempts >= 5
Locks(failed_attempts) == failed_attempts >= LOCK_THRESHOLD

\* lines 120-134: get_item, 401 when there is no such user, 403 when the item
\* read says the account is locked
GetItem(c) ==
    /\ login[c].pc = "idle"
    /\ Len(trail) + Cardinality(InFlight) < MaxLogins
    /\ \E kind \in LoginKinds :
          IF kind = "unknown_email"
              THEN UNCHANGED user /\ Return(c, kind, Stored, 401, {})
          ELSE IF user.accountLocked
              THEN UNCHANGED user /\ Return(c, kind, Stored, 403, {})
          ELSE /\ login' = [login EXCEPT ![c] = [pc |-> "verify", kind |-> kind, item |-> Stored]]
               /\ UNCHANGED <<user, trail>>
    /\ UNCHANGED <<orchVars, fnVars, saveVars>>

\* lines 137-148: the password does not verify; the count read is incremented
\* and written back together with the lock flag
UpdateFailed(c) ==
    /\ login[c].pc = "verify"
    /\ login[c].kind = "wrong_password"
    /\ LET failed_attempts == login[c].item.failedLoginAttempts + 1
       IN  user' = [user EXCEPT !.failedLoginAttempts = failed_attempts,
                                !.accountLocked = Locks(failed_attempts)]
    /\ Return(c, login[c].kind, login[c].item, 401, {})
    /\ UNCHANGED <<orchVars, fnVars, saveVars>>

\* lines 150-163: the password verifies; the count is reset, and with MFA
\* enabled the call returns a temp token
ResetAttempts(c) ==
    /\ login[c].pc = "verify"
    /\ login[c].kind = "right_password"
    /\ user' = [user EXCEPT !.failedLoginAttempts = 0]
    /\ IF user.mfaEnabled
          THEN Return(c, login[c].kind, login[c].item, 200, {"tempToken"})
          ELSE /\ login' = [login EXCEPT ![c].pc = "last_login"]
               /\ UNCHANGED trail
    /\ UNCHANGED <<orchVars, fnVars, saveVars>>

\* lines 165-188: the tokens are generated, lastLogin is written
UpdateLastLogin(c) ==
    /\ login[c].pc = "last_login"
    /\ user' = [user EXCEPT !.lastLogin = "now"]
    /\ Return(c, login[c].kind, login[c].item, 200, {"accessToken", "refreshToken"})
    /\ UNCHANGED <<orchVars, fnVars, saveVars>>

handle_login(c) ==
    \/ GetItem(c)
    \/ UpdateFailed(c)
    \/ ResetAttempts(c)
    \/ UpdateLastLogin(c)

(************* specification: logins one after the other *******************)
\* a call begins only when none is running
SeqGetItem(c) == InFlight = {} /\ GetItem(c)

LoginSeqNext ==
    \E c \in Callers :
        \/ SeqGetItem(c)
        \/ UpdateFailed(c)
        \/ ResetAttempts(c)
        \/ UpdateLastLogin(c)

SpecLoginSeq == LoginInit /\ [][LoginSeqNext]_vars

\* the calls that concerned this user, in order
OwnTrail == SelectSeq(trail, LAMBDA e : e.kind # "unknown_email")

(* C29: login lockout: from an unlocked account with failedLoginAttempts 0,*)
(* five failed password attempts in sequence, with no successful one in    *)
(* between, leave accountLocked true; from then on every handle_login      *)
(* call, also one with the correct password, returns 403 and issues no     *)
(* token; a successful password check before the fifth failure resets the  *)
(* counter to 0.                                                           *)
C29_LoginLockout ==
    \A i \in 1..Len(OwnTrail) :
        LET e == OwnTrail[i]
        IN  /\ (/\ i >= LOCK_THRESHOLD
                /\ \A j \in (i - LOCK_THRESHOLD + 1)..i :
                      OwnTrail[j].kind = "wrong_password" /\ OwnTrail[j].status = 401
                /\ OwnTrail[i - LOCK_THRESHOLD + 1].read.failedLoginAttempts = 0)
                  => e.stored.accountLocked
            /\ e.read.accountLocked =>
                  (e.status = 403 /\ e.tokens = {} /\ e.stored.accountLocked)
            /\ (e.kind = "right_password" /\ ~e.read.accountLocked) =>
                  /\ e.status = 200
                  /\ e.stored.failedLoginAttempts = 0
                  /\ ~e.stored.accountLocked

\* five failures locked the account and the correct password was then refused
C29_Witness ==
    /\ Len(trail) = 6
    /\ \A j \in 1..5 : trail[j].kind = "wrong_password" /\ trail[j].status = 401
    /\ trail[5].stored.accountLocked
    /\ trail[6].kind = "right_password"
    /\ trail[6].status = 403
    /\ trail[6].tokens = {}
    /\ user.accountLocked

\* a success after four failures reset the counter
C29_ResetWitness ==
    /\ Len(trail) = 5
    /\ \A j \in 1..4 : trail[j].kind = "wrong_password"
    /\ trail[5].kind = "right_password"
    /\ trail[5].read.failedLoginAttempts = 4
    /\ user.failedLoginAttempts = 0
    /\ ~user.accountLocked

(************* specification: logins running at the same time *************)
LoginNext == \E c \in Callers : handle_login(c)

SpecLogin == LoginInit /\ [][LoginNext]_vars

(* C30: the lock is absorbing under concurrency: once accountLocked is     *)
(* true it stays true in every later state, whatever the interleaving of   *)
(* concurrent handle_login calls, and no login lowers the stored failure   *)
(* count below the number that triggered the lock.                         *)
C30_LockAbsorbing ==
    [][user.accountLocked =>
          (user'.accountLocked /\ user'.failedLoginAttempts >= LOCK_THRESHOLD)]_vars

====
